---------------------------- MODULE Spec2Model ----------------------------
(***************************************************************************)
(* SecureShare (src/main.py): a Streamlit script that is re-executed from  *)
(* top to bottom on every interaction of a browser session.  Every session *)
(* has its own st.session_state; all sessions share shared_files.json.     *)
(*                                                                         *)
(* One page run of a session is two steps, between which the other         *)
(* sessions and the clock may move:                                        *)
(*   Run*     lines 215-491   load_shared_data, the pressed button's       *)
(*                            handler and the render of the page           *)
(*   Cleanup  lines 543-553   the expiry sweep and save_shared_data        *)
(* A run whose render raises ends there, without its Cleanup.              *)
(*                                                                         *)
(* Specifications:                                                         *)
(*   Spec       one session, every button, FewShares shares                *)
(*   SpecSolo   one session, every button, MaxShares shares                *)
(*   SpecDuo    two sessions that upload and reload, FewShares shares      *)
(*   SpecStore  save_shared_data and load_shared_data alone, on every      *)
(*              collection the handlers can build                          *)
(*                                                                         *)
(* Bytes are 0..255.  base64 and isoformat are computed; PBKDF2 and Fernet *)
(* are a toy key and a toy authenticated cipher over bytes.  `created` and *)
(* `lastSaved` are history variables: no handler reads them.               *)
(***************************************************************************)
EXTENDS Integers, Sequences, FiniteSets, TLC

VARIABLES
    now,               \* datetime.now(): [sec, usec]
    file,              \* shared_files.json: [exists, data]
    files,             \* st.session_state.files, per session
    share_code,        \* st.session_state.share_code, per session
    encryption_key,    \* st.session_state.encryption_key, per session
    current_download,  \* st.session_state.current_download, per session
    pc,                \* where each session's page run stands
    page,              \* what the session's latest page run put on the page
    created,           \* history: every share created, with what was uploaded
    lastSaved          \* history: the collection handed to the latest save

vars == <<now, file, files, share_code, encryption_key, current_download,
          pc, page, created, lastSaved>>

---------------------------------------------------------------------------
(* Bounds of the model *)

\* seconds between two readings of the clock's seconds field
TickSec == 86400
\* the clock's seconds field goes up to MaxTicks * TickSec
MaxTicks == 2
\* shares created in one behaviour of SpecSolo
MaxShares == 2
\* shares created in one behaviour of Spec and of SpecDuo
FewShares == 1

Sessions == {"s1", "s2"}
\* the microsecond fields the clock takes
USecs == {0, 250000}
\* the values datetime.now() takes
Clock == {[sec |-> k * TickSec, usec |-> u] : k \in 0..MaxTicks, u \in USecs}
\* the share codes generate_share_code draws (of the 10^6 possible)
Codes == {<<0, 0, 0, 0, 0, 1>>, <<0, 0, 0, 0, 4, 2>>}
\* the salts secrets.token_bytes draws (two bytes stand for the sixteen)
Salts == {<<3, 200>>}
\* the IVs Fernet draws when it encrypts
IVs == {17}
\* the uploads of st.file_uploader: sequences of <<name, bytes>>
Uploads ==
    { << <<"a.txt", <<1>> >>, <<"b.txt", <<0, 255, 16, 7, 128>> >>, <<"c.txt", <<>> >> >>,
      << <<"x.txt", <<1>> >>, <<"x.txt", <<2>> >> >> }

---------------------------------------------------------------------------
(* Program constants *)

\* timedelta(hours=24), in seconds
TTL == 86400

---------------------------------------------------------------------------
(* datetime *)

\* a > b on datetimes
Later(a, b) == a.sec > b.sec \/ (a.sec = b.sec /\ a.usec > b.usec)

\* datetime.isoformat(): the fraction is written only when it is not zero
isoformat_secondsOnly(d) == <<d.sec>>
isoformat(d) == IF d.usec = 0 THEN <<d.sec>> ELSE <<d.sec, d.usec>>

\* datetime.fromisoformat(): a string without a fraction has microsecond 0
fromisoformat(s) ==
    IF Len(s) = 1 THEN [sec |-> s[1], usec |-> 0]
                  ELSE [sec |-> s[1], usec |-> s[2]]

---------------------------------------------------------------------------
(* base64: bytes are 0..255, characters are the sextets 0..63 and Pad *)

Pad == 64

b64chunk(b) ==
    LET n == Len(b)
        b2 == IF n >= 2 THEN b[2] ELSE 0
        b3 == IF n >= 3 THEN b[3] ELSE 0
        v == b[1] * 65536 + b2 * 256 + b3
        s1 == v \div 262144
        s2 == (v \div 4096) % 64
        s3 == (v \div 64) % 64
        s4 == v % 64
    IN  IF n = 1 THEN <<s1, s2, Pad, Pad>>
        ELSE IF n = 2 THEN <<s1, s2, s3, Pad>>
        ELSE <<s1, s2, s3, s4>>

RECURSIVE b64encode(_)
b64encode(b) ==
    IF Len(b) = 0 THEN <<>>
    ELSE IF Len(b) <= 3 THEN b64chunk(b)
    ELSE b64chunk(SubSeq(b, 1, 3)) \o b64encode(SubSeq(b, 4, Len(b)))

b64unchunk(s) ==
    LET c3 == IF s[3] = Pad THEN 0 ELSE s[3]
        c4 == IF s[4] = Pad THEN 0 ELSE s[4]
        v == s[1] * 262144 + s[2] * 4096 + c3 * 64 + c4
        o1 == v \div 65536
        o2 == (v \div 256) % 256
        o3 == v % 256
    IN  IF s[3] = Pad THEN <<o1>>
        ELSE IF s[4] = Pad THEN <<o1, o2>>
        ELSE <<o1, o2, o3>>

RECURSIVE b64decode(_)
b64decode(s) ==
    IF Len(s) = 0 THEN <<>>
    ELSE b64unchunk(SubSeq(s, 1, 4)) \o b64decode(SubSeq(s, 5, Len(s)))

---------------------------------------------------------------------------
(* Key derivation and Fernet, as a toy cipher over bytes.  A token is      *)
(* <<version, iv, tag>> followed by the masked plaintext; the tag stands   *)
(* for the HMAC and is what a wrong key fails on.                          *)

RECURSIVE SumSeq(_)
SumSeq(s) == IF Len(s) = 0 THEN 0 ELSE s[1] + 31 * SumSeq(Tail(s))

\* PBKDF2HMAC(password.encode(), salt): one byte stands for the key
generate_encryption_key(password, salt) ==
    (SumSeq(password) * 7 + SumSeq(salt) * 13 + 1) % 256

FernetVersion == 128

Tag(key) == (key * 5 + 3) % 256

encrypt_file(file_data, key, iv) ==
    <<FernetVersion, iv, Tag(key)>>
        \o [i \in 1..Len(file_data) |-> (file_data[i] + key + iv) % 256]

\* [ok |-> FALSE] is cryptography's InvalidToken
decrypt_file(encrypted_data, key) ==
    IF /\ Len(encrypted_data) >= 3
       /\ encrypted_data[1] = FernetVersion
       /\ encrypted_data[3] = Tag(key)
    THEN [ok |-> TRUE,
          data |-> [i \in 1..(Len(encrypted_data) - 3) |->
                      (encrypted_data[i + 3] + 512 - key - encrypted_data[2]) % 256]]
    ELSE [ok |-> FALSE, data |-> <<>>]

---------------------------------------------------------------------------
(* Persistence *)

EncodeFile(f) ==
    [name |-> f.name, data |-> b64encode(f.data),
     size |-> f.size, encrypted |-> f.encrypted]

EncodeInfo(info) ==
    [salt |-> b64encode(info.salt),
     created |-> isoformat(info.created),
     expires |-> isoformat(info.expires),
     files |-> [i \in 1..Len(info.files) |-> EncodeFile(info.files[i])]]

\* the JSON document written for the in-memory collection `mem`
save_shared_data_merging(mem) ==
    [exists |-> TRUE,
     data |-> [c \in (DOMAIN mem) \cup (DOMAIN file.data) |->
                 IF c \in DOMAIN mem THEN EncodeInfo(mem[c]) ELSE file.data[c]]]
save_shared_data(mem) ==
    [exists |-> TRUE, data |-> [c \in DOMAIN mem |-> EncodeInfo(mem[c])]]

DecodeFile(f) ==
    [name |-> f.name, data |-> b64decode(f.data),
     size |-> f.size, encrypted |-> f.encrypted]

DecodeInfo(info) ==
    [salt |-> b64decode(info.salt),
     created |-> fromisoformat(info.created),
     expires |-> fromisoformat(info.expires),
     files |-> [i \in 1..Len(info.files) |-> DecodeFile(info.files[i])]]

\* the collection a JSON document decodes to
Decoded(f) == [c \in DOMAIN f.data |-> DecodeInfo(f.data[c])]

\* st.session_state.files after load_shared_data, `mem` being it before
load_shared_data(mem) == IF file.exists THEN Decoded(file) ELSE mem

---------------------------------------------------------------------------
(* Values *)

\* a code that is not set (Python's None, or a key that is absent)
NoCode == <<>>

\* the page before a run has written to it
BlankPage ==
    [run |-> "none", retrieve |-> <<>>, shown |-> <<>>, zip |-> <<>>]

Restrict(f, S) == [x \in S |-> f[x]]

Put(f, k, v) == [x \in (DOMAIN f) \cup {k} |-> IF x = k THEN v ELSE f[x]]

Range(s) == {s[i] : i \in DOMAIN s}

Names(info) == {info.files[i].name : i \in 1..Len(info.files)}

\* what st.multiselect can return: the chosen names, in the order chosen
Selections(names) ==
    {q \in UNION {[1..n -> names] : n \in 1..Cardinality(names)} :
        \A i, j \in DOMAIN q : i # j => q[i] # q[j]}

---------------------------------------------------------------------------
(* The handlers *)

\* generate_share_code(): any of the codes, whatever the store holds
generate_share_code == Codes

\* lines 317-328: the stored entry of one uploaded file
StoreFile(up, use_encryption, key, iv) ==
    [name |-> up[1],
     data |-> IF use_encryption THEN encrypt_file(up[2], key, iv) ELSE up[2],
     size |-> Len(up[2]),
     encrypted |-> use_encryption]

\* lines 330-335: the record of a new share
NewInfo(upload, use_encryption, key, salt, iv, at) ==
    [files |-> [i \in 1..Len(upload) |->
                  StoreFile(upload[i], use_encryption, key, iv)],
     salt |-> salt,
     created |-> at,
     expires |-> [sec |-> at.sec + TTL, usec |-> at.usec]]

\* lines 395-405: the Retrieve Files button; <<outcome, current_download>>
Retrieve(mem, cd, receive_code) ==
    IF receive_code \in DOMAIN mem
    THEN IF Later(now, mem[receive_code].expires)
         THEN <<"expired", cd>>
         ELSE <<"found", receive_code>>
    ELSE <<"invalid", cd>>

\* lines 414-439: one download button per file that decrypts
DownloadButtons(code, info) ==
    LET key == generate_encryption_key(code, info.salt)
        one(f) == IF f.encrypted
                  THEN LET d == decrypt_file(f.data, key)
                       IN  [ok |-> d.ok, name |-> f.name, data |-> d.data]
                  ELSE [ok |-> TRUE, name |-> f.name, data |-> f.data]
        all == [i \in 1..Len(info.files) |-> one(info.files[i])]
        kept == SelectSeq(all, LAMBDA b : b.ok)
    IN  [i \in 1..Len(kept) |-> <<kept[i].name, kept[i].data>>]

\* lines 455-462 and 477-483: the entries written to the ZIP, in the order
\* of the record's files; ok is FALSE when a decrypt_file raises
ZipEntries(code, info, wanted) ==
    LET key == generate_encryption_key(code, info.salt)
        picked == SelectSeq(info.files, LAMBDA f : f.name \in wanted)
        one(f) == IF f.encrypted THEN decrypt_file(f.data, key)
                                 ELSE [ok |-> TRUE, data |-> f.data]
    IN  [ok |-> \A i \in 1..Len(picked) : one(picked[i]).ok,
         entries |-> [i \in 1..Len(picked) |->
                        <<picked[i].name, one(picked[i]).data>>]]

\* the ZIP of the selected names, written in the order they were selected
ZipSelected_inSelectionOrder(code, info, selected) ==
    LET key == generate_encryption_key(code, info.salt)
        first(n) == CHOOSE i \in 1..Len(info.files) :
                       /\ info.files[i].name = n
                       /\ \A j \in 1..(i - 1) : info.files[j].name # n
        one(f) == IF f.encrypted THEN decrypt_file(f.data, key)
                                 ELSE [ok |-> TRUE, data |-> f.data]
    IN  [ok |-> \A i \in 1..Len(selected) : one(info.files[first(selected[i])]).ok,
         entries |-> [i \in 1..Len(selected) |->
                        <<selected[i], one(info.files[first(selected[i])]).data>>]]
\* lines 451-462: Download Selected as ZIP
ZipSelected(code, info, selected) == ZipEntries(code, info, Range(selected))

\* lines 473-483: Download All as ZIP
ZipAll(code, info) == ZipEntries(code, info, Names(info))

\* lines 408-439: the right column of the Receive tab
Render(mem, cd) ==
    IF cd = NoCode THEN [run |-> "ok", shown |-> <<>>]
    ELSE IF cd \notin DOMAIN mem THEN [run |-> "KeyError", shown |-> <<>>]
    ELSE [run |-> "ok",
          shown |-> <<[code |-> cd, expires |-> mem[cd].expires, at |-> now,
                       buttons |-> DownloadButtons(cd, mem[cd])]>>]

---------------------------------------------------------------------------
(* The state machine *)

Init ==
    /\ now = [sec |-> 0, usec |-> 0]
    /\ file = [exists |-> FALSE, data |-> <<>>]
    /\ files = [s \in Sessions |-> <<>>]
    /\ share_code = [s \in Sessions |-> NoCode]
    /\ encryption_key = [s \in Sessions |-> <<>>]
    /\ current_download = [s \in Sessions |-> NoCode]
    /\ pc = [s \in Sessions |-> "idle"]
    /\ page = [s \in Sessions |-> BlankPage]
    /\ created = {}
    /\ lastSaved = <<>>

\* time passes
Tick ==
    /\ \E t \in Clock : Later(t, now) /\ now' = t
    /\ UNCHANGED <<file, files, share_code, encryption_key, current_download,
                   pc, page, created, lastSaved>>

\* a session can start a page run: its previous one ended or raised
CanRun(s) == pc[s] \in {"idle", "raised"}

\* the rest of the script after the pressed button's handler: the Receive
\* tab is rendered, and an exception in it ends the run before the cleanup
Finish(s, mem, cd, retrieve, zip) ==
    LET r == Render(mem, cd)
        raised == r.run # "ok" \/ (zip # <<>> /\ ~zip[1].ok)
    IN  /\ page' = [page EXCEPT ![s] =
                      [run |-> IF r.run # "ok" THEN r.run
                               ELSE IF raised THEN "InvalidToken" ELSE "ok",
                       retrieve |-> retrieve,
                       shown |-> r.shown,
                       zip |-> IF raised THEN <<>> ELSE zip]]
        /\ pc' = [pc EXCEPT ![s] = IF raised THEN "raised" ELSE "cleanup"]

\* a run in which no button was pressed (a reload, a widget edited)
RunIdle(s) ==
    /\ CanRun(s)
    /\ LET mem == load_shared_data(files[s])
       IN  /\ files' = [files EXCEPT ![s] = mem]
           /\ Finish(s, mem, current_download[s], <<>>, <<>>)
    /\ UNCHANGED <<now, file, share_code, encryption_key, current_download,
                   created, lastSaved>>

\* lines 307-340: Generate Share Code
RunCreate(s, limit) ==
    /\ CanRun(s)
    /\ Cardinality(created) < limit
    /\ \E uploaded_files \in Uploads, use_encryption \in BOOLEAN,
          code \in generate_share_code, salt \in Salts, iv \in IVs :
         LET key == generate_encryption_key(code, salt)
             info == NewInfo(uploaded_files, use_encryption, key, salt, iv, now)
             mem == Put(load_shared_data(files[s]), code, info)
         IN  /\ files' = [files EXCEPT ![s] = mem]
             /\ share_code' = [share_code EXCEPT ![s] = code]
             /\ encryption_key' = [encryption_key EXCEPT ![s] = <<key>>]
             /\ file' = save_shared_data(mem)
             /\ lastSaved' = mem
             /\ created' = created \cup
                   {[code |-> code, info |-> info, upload |-> uploaded_files]}
             /\ Finish(s, mem, current_download[s], <<>>, <<>>)
    /\ UNCHANGED <<now, current_download>>

\* lines 374-376: Generate New Code; st.rerun() abandons the run and the
\* script runs again from the top, no button pressed
RunNewCode(s) ==
    /\ CanRun(s)
    /\ share_code[s] # NoCode
    /\ share_code' = [share_code EXCEPT ![s] = NoCode]
    /\ LET mem == load_shared_data(load_shared_data(files[s]))
       IN  /\ files' = [files EXCEPT ![s] = mem]
           /\ Finish(s, mem, current_download[s], <<>>, <<>>)
    /\ UNCHANGED <<now, file, encryption_key, current_download, created,
                   lastSaved>>

\* lines 394-405: Retrieve Files
RunRetrieve(s) ==
    /\ CanRun(s)
    /\ \E receive_code \in Codes :
         LET mem == load_shared_data(files[s])
             r == Retrieve(mem, current_download[s], receive_code)
         IN  /\ files' = [files EXCEPT ![s] = mem]
             /\ current_download' = [current_download EXCEPT ![s] = r[2]]
             /\ Finish(s, mem, r[2],
                       <<[code |-> receive_code, result |-> r[1], at |-> now]>>,
                       <<>>)
    /\ UNCHANGED <<now, file, share_code, encryption_key, created, lastSaved>>

\* the ZIP buttons are on the page: lines 408-410 and 443
ZipOffered(mem, code) ==
    /\ code # NoCode
    /\ code \in DOMAIN mem
    /\ Len(mem[code].files) > 1

\* lines 443-470: Download Selected as ZIP
RunZipSelected(s) ==
    LET code == current_download[s]
        mem == load_shared_data(files[s])
    IN  /\ CanRun(s)
        /\ ZipOffered(mem, code)
        /\ files' = [files EXCEPT ![s] = mem]
        /\ \E selected \in Selections(Names(mem[code])) :
             LET z == ZipSelected(code, mem[code], selected)
             IN  Finish(s, mem, code, <<>>,
                        <<[kind |-> "selected", code |-> code,
                           selected |-> selected, ok |-> z.ok,
                           entries |-> z.entries]>>)
        /\ UNCHANGED <<now, file, share_code, encryption_key,
                       current_download, created, lastSaved>>

\* lines 473-491: Download All as ZIP
RunZipAll(s) ==
    LET code == current_download[s]
        mem == load_shared_data(files[s])
    IN  /\ CanRun(s)
        /\ ZipOffered(mem, code)
        /\ files' = [files EXCEPT ![s] = mem]
        /\ LET z == ZipAll(code, mem[code])
           IN  Finish(s, mem, code, <<>>,
                      <<[kind |-> "all", code |-> code, selected |-> <<>>,
                         ok |-> z.ok, entries |-> z.entries]>>)
        /\ UNCHANGED <<now, file, share_code, encryption_key,
                       current_download, created, lastSaved>>

\* lines 543-553: the expiry sweep and the save that ends the script
Cleanup(s) ==
    /\ pc[s] = "cleanup"
    /\ LET expired_codes == {c \in DOMAIN files[s] :
                                Later(now, files[s][c].expires)}
           mem == Restrict(files[s], (DOMAIN files[s]) \ expired_codes)
       IN  /\ files' = [files EXCEPT ![s] = mem]
           /\ file' = save_shared_data(mem)
           /\ lastSaved' = mem
    /\ pc' = [pc EXCEPT ![s] = "idle"]
    /\ page' = [page EXCEPT ![s] = BlankPage]
    /\ UNCHANGED <<now, share_code, encryption_key, current_download, created>>

\* one session, every button, one share
Next ==
    \/ Tick
    \/ RunIdle("s1")
    \/ RunCreate("s1", FewShares)
    \/ RunNewCode("s1")
    \/ RunRetrieve("s1")
    \/ RunZipSelected("s1")
    \/ RunZipAll("s1")
    \/ Cleanup("s1")

Spec == Init /\ [][Next]_vars

\* one session, every button, several shares
NextSolo ==
    \/ Tick
    \/ RunIdle("s1")
    \/ RunCreate("s1", MaxShares)
    \/ RunNewCode("s1")
    \/ RunRetrieve("s1")
    \/ RunZipSelected("s1")
    \/ RunZipAll("s1")
    \/ Cleanup("s1")

SpecSolo == Init /\ [][NextSolo]_vars

\* two sessions that upload and reload
NextDuo ==
    \/ Tick
    \/ \E s \in Sessions : RunIdle(s)
    \/ \E s \in Sessions : RunCreate(s, FewShares)
    \/ \E s \in Sessions : Cleanup(s)

SpecDuo == Init /\ [][NextDuo]_vars

---------------------------------------------------------------------------
(* save_shared_data and load_shared_data alone: session s1 holds any       *)
(* collection the handlers can have built by `now`, saves it, and session  *)
(* s2 loads the file.                                                      *)

\* the records Generate Share Code can have stored under `code` by time t
InfosBy(code, t) ==
    {NewInfo(u, e, generate_encryption_key(code, salt), salt, iv, at) :
        u \in Uploads, e \in BOOLEAN, salt \in Salts, iv \in IVs,
        at \in {c \in Clock : ~Later(c, t)}}

CollectionsBy(t) ==
    UNION {{m \in [D -> UNION {InfosBy(c, t) : c \in D}] :
               \A c \in D : m[c] \in InfosBy(c, t)} : D \in SUBSET Codes}

InitStore ==
    /\ now \in Clock
    /\ file = [exists |-> FALSE, data |-> <<>>]
    /\ files \in {[s \in Sessions |-> IF s = "s1" THEN m ELSE <<>>] :
                     m \in CollectionsBy(now)}
    /\ share_code = [s \in Sessions |-> NoCode]
    /\ encryption_key = [s \in Sessions |-> <<>>]
    /\ current_download = [s \in Sessions |-> NoCode]
    /\ pc = [s \in Sessions |-> "idle"]
    /\ page = [s \in Sessions |-> BlankPage]
    /\ created = {}
    /\ lastSaved = <<>>

\* lines 30-48: save_shared_data()
StoreSave(s) ==
    /\ s = "s1"
    /\ ~file.exists
    /\ file' = save_shared_data(files[s])
    /\ lastSaved' = files[s]
    /\ UNCHANGED <<now, files, share_code, encryption_key, current_download,
                   pc, page, created>>

\* lines 17-28: load_shared_data()
StoreLoad(s) ==
    /\ s = "s2"
    /\ file.exists
    /\ pc[s] = "idle"
    /\ files' = [files EXCEPT ![s] = load_shared_data(files[s])]
    /\ pc' = [pc EXCEPT ![s] = "loaded"]
    /\ UNCHANGED <<now, file, share_code, encryption_key, current_download,
                   page, created, lastSaved>>

NextStore ==
    \/ \E s \in Sessions : StoreSave(s)
    \/ \E s \in Sessions : StoreLoad(s)

SpecStore == InitStore /\ [][NextStore]_vars

---------------------------------------------------------------------------
(* Properties *)

Expired(info, t) == Later(t, info.expires)

PairwiseDistinctNames(entries) ==
    \A i, j \in 1..Len(entries) : i # j => entries[i][1] # entries[j][1]

\* the shares whose stored record is `info` under `code`
CreatedAs(code, info) == {g \in created : g.code = code /\ g.info = info}

\* the uploaded files named in `selected`: in upload order, and in the
\* order the names were selected
RECURSIVE InSelectionOrder(_, _)
InSelectionOrder(upload, selected) ==
    IF Len(selected) = 0 THEN <<>>
    ELSE SelectSeq(upload, LAMBDA u : u[1] = selected[1])
             \o InSelectionOrder(upload, Tail(selected))

InUploadOrder(upload, selected) ==
    SelectSeq(upload, LAMBDA u : u[1] \in Range(selected))

\* C1: a Generate Share Code never stores its record under a code that
\* identifies an unexpired record of the store it loaded, so no unexpired
\* record is replaced by a later create.
C1_CreateNeverReplacesLive ==
    [][\A s \in Sessions : \A g \in created' \ created :
          files'[s] # files[s] =>
             LET before == load_shared_data(files[s])
             IN  g.code \in DOMAIN before => Expired(before[g.code], now)]_vars

\* no page shows download buttons for a record that had expired when the
\* page was rendered
NoExpiredDownload ==
    \A s \in Sessions :
       page[s].shown # <<>> =>
          ~Later(page[s].shown[1].at, page[s].shown[1].expires)

\* a Retrieve Files of a code whose every share has expired answers
\* "expired"
RetrieveSaysExpired ==
    \A s \in Sessions :
       page[s].retrieve # <<>> =>
          LET r == page[s].retrieve[1]
              shares == {g \in created : g.code = r.code}
          IN  (shares # {} /\ \A g \in shares : Expired(g.info, r.at))
                 => r.result = "expired"

\* C2: an expired record is never returned: at every moment after a
\* record's expiry, Retrieve Files of its code answers "expired", and no
\* page offers its files for download.
C2_ExpiredNeverReturned == RetrieveSaysExpired /\ NoExpiredDownload

\* C3: whenever a page run ends, neither the session's collection nor the
\* persisted file holds a record that expired before that moment, and the
\* sweep removed no record that had not expired.
C3_SweepOnEveryRun ==
    [][\A s \in Sessions :
          (pc'[s] \in {"idle", "raised"} /\ pc'[s] # pc[s]) =>
             /\ \A c \in DOMAIN files'[s] : ~Expired(files'[s][c], now)
             /\ \A c \in DOMAIN Decoded(file') :
                   ~Expired(Decoded(file')[c], now)
             /\ pc[s] = "cleanup" =>
                   \A c \in (DOMAIN files[s]) \ (DOMAIN files'[s]) :
                      Expired(files[s][c], now)]_vars

\* C4: the record stored under a code stays exactly as it is until the
\* expiry sweep removes it, expired: no step changes it, and no step but
\* the sweep removes it.
C4_RecordsImmutable ==
    [][\A s \in Sessions : \A c \in DOMAIN files[s] :
          IF c \in DOMAIN files'[s]
          THEN files'[s][c] = files[s][c]
          ELSE pc[s] = "cleanup" /\ Expired(files[s][c], now)]_vars

\* C5: last write wins: when a session's page run ends with its save, the
\* persisted file holds exactly the codes of that session's collection,
\* whatever the other session has saved since this session loaded.
C5_LastWriteWins ==
    [][\A s \in Sessions :
          (pc[s] = "cleanup" /\ pc'[s] = "idle") =>
             /\ file'.exists
             /\ DOMAIN file'.data = DOMAIN files'[s]]_vars

\* C5 witness: a share that was created and saved, and has not expired, is
\* missing from the persisted file.
C5_LostUpdate ==
    \E g \in created :
       /\ ~Expired(g.info, now)
       /\ file.exists
       /\ g.code \notin DOMAIN file.data

\* C6: the collection a session loads from the file is exactly the
\* collection that was saved: the same codes and, under each, the same
\* salt, timestamps and files.
C6_RoundTrip ==
    \A s \in Sessions : pc[s] = "loaded" => files[s] = lastSaved

\* C6 witness: a reloaded collection of two records, with a timestamp that
\* has microseconds, an encrypted file, and a plain file holding byte 255.
C6_RichCollectionReloaded ==
    /\ pc["s2"] = "loaded"
    /\ Cardinality(DOMAIN files["s2"]) = 2
    /\ \E c \in DOMAIN files["s2"] : files["s2"][c].created.usec # 0
    /\ \E c \in DOMAIN files["s2"] :
          \E i \in 1..Len(files["s2"][c].files) :
             files["s2"][c].files[i].encrypted
    /\ \E c \in DOMAIN files["s2"] :
          \E i \in 1..Len(files["s2"][c].files) :
             /\ ~files["s2"][c].files[i].encrypted
             /\ 255 \in Range(files["s2"][c].files[i].data)

\* C7: while a created share has not expired, a Retrieve Files of its code
\* finds it and the page offers exactly the uploaded files, each with the
\* uploaded bytes; the stored size is the length of the uploaded bytes.
C7_EndToEnd ==
    /\ \A s \in Sessions : \A g \in created :
          (/\ page[s].retrieve # <<>>
           /\ page[s].retrieve[1].code = g.code
           /\ ~Expired(g.info, page[s].retrieve[1].at)) =>
             /\ page[s].retrieve[1].result = "found"
             /\ page[s].shown # <<>>
             /\ page[s].shown[1].buttons = g.upload
    /\ \A g \in created : \A i \in 1..Len(g.upload) :
          g.info.files[i].size = Len(g.upload[i][2])

\* C8: no archive with two entries of the same name is produced.
C8_NoDuplicateEntries ==
    \A s \in Sessions :
       page[s].zip # <<>> => PairwiseDistinctNames(page[s].zip[1].entries)

\* C9 as stated: the archive of a selection holds the selected files under
\* their names with their uploaded bytes, in the order the names were
\* selected.
C9_SelectedInSelectionOrder ==
    \A s \in Sessions :
       (page[s].zip # <<>> /\ page[s].zip[1].kind = "selected") =>
          LET z == page[s].zip[1]
              shares == CreatedAs(z.code, files[s][z.code])
          IN  /\ shares # {}
              /\ \A g \in shares :
                    z.entries = InSelectionOrder(g.upload, z.selected)

\* C9 as amended: the archive of a selection holds the files of the record
\* whose names were selected, under their names with their uploaded bytes,
\* in the order of the record's files.
C9_SelectedInRecordOrder ==
    \A s \in Sessions :
       (page[s].zip # <<>> /\ page[s].zip[1].kind = "selected") =>
          LET z == page[s].zip[1]
              shares == CreatedAs(z.code, files[s][z.code])
          IN  /\ shares # {}
              /\ \A g \in shares :
                    z.entries = InUploadOrder(g.upload, z.selected)

\* C9 witness: of an encrypted record of three files, the third and then
\* the first were selected, and the archive was built.
C9_TwoOfThreeOutOfOrder ==
    \E s \in Sessions :
       /\ page[s].zip # <<>>
       /\ page[s].zip[1].kind = "selected"
       /\ page[s].zip[1].selected = <<"c.txt", "a.txt">>
       /\ Len(page[s].zip[1].entries) = 2
       /\ files[s][page[s].zip[1].code].files[1].encrypted

\* C10: whenever a page run can start, a current_download that is set is a
\* key of the collection the run loads.
C10_NeverDangles ==
    \A s \in Sessions :
       (CanRun(s) /\ current_download[s] # NoCode) =>
          current_download[s] \in DOMAIN load_shared_data(files[s])

===========================================================================
